---- MODULE Spec2Model ----
(***************************************************************************)
(* Model of patchwire's lib/client.js: the per-connection wrapper `Client` *)
(* (framing, integrity/sequence validation, dispatch, immediate and        *)
(* tick-mode sending, teardown) and of lib/getEnv.js.                      *)
(*                                                                         *)
(* Strings are sequences of one-character TLA+ strings.  The character NUL *)
(* ('\0') is written "NUL".                                                *)
(***************************************************************************)
EXTENDS Integers, Sequences, FiniteSets, TLC

(***************************************************************************)
(* Bounds of the model.                                                    *)
(***************************************************************************)
\* number of sequence numbers past the first search window that a delivered
\* frame may be signed with (specification SpecWindow)
MaxBeyond == 2
\* highest counter at which SpecWindow still delivers frames
MaxStart == 1
\* longest outbound queue
MaxQueue == 2
\* most handlers registered with onData
MaxHandlers == 1
\* highest sequence number a frame is signed with (specification SpecInbound)
MaxInSeq == 2
\* most handlers registered with onData (specification SpecInbound)
MaxRegistered == 2

(***************************************************************************)
(* Program constants.                                                      *)
(***************************************************************************)
TERMINATING_CHARACTER == "NUL"
INC_PACKET_SEARCHBOUND == 100
hashLength == 40
\* The 72-character secret of validateClientCommandIntegrity, abbreviated to
\* its first and last character.  Like the original it ends in a non-digit.
key == <<"5", "h">>

\* The value of an identifier, property or environment variable that is not set.
Undefined == <<"<undefined>">>
\* String(undefined), as string concatenation and String.prototype.replace coerce it
UndefinedText == <<"u", "n", "d", "e", "f", "i", "n", "e", "d">>

(***************************************************************************)
(* JavaScript string primitives.                                           *)
(***************************************************************************)
Max(a, b) == IF a >= b THEN a ELSE b

\* s.indexOf(pat), 1-based; 0 when absent (JavaScript's -1)
\* pat occurs in s at position i
OccursAt(s, pat, i) == \A j \in 1..Len(pat) : s[i + j - 1] = pat[j]

IndexOf(s, pat) ==
  LET hits == {i \in 1..(Len(s) - Len(pat) + 1) : OccursAt(s, pat, i)}
  IN  IF hits = {} THEN 0 ELSE CHOOSE i \in hits : \A j \in hits : i <= j

\* s.replace(pat, '') with a string pattern: only the first occurrence goes
ReplaceFirst(s, pat) ==
  LET i == IndexOf(s, pat)
  IN  IF i = 0 THEN s ELSE SubSeq(s, 1, i - 1) \o SubSeq(s, i + Len(pat), Len(s))

\* number of (possibly overlapping) occurrences of pat in s
Occurrences(s, pat) ==
  Cardinality({i \in 1..(Len(s) - Len(pat) + 1) : OccursAt(s, pat, i)})

\* s.trim() == ''
IsBlank(s) == \A i \in 1..Len(s) : s[i] = " "

Digit(d) == <<"0", "1", "2", "3", "4", "5", "6", "7", "8", "9">>[d + 1]

\* Number.prototype.toString() of an integer in 0 .. 10^9 - 1
NumToString(n) ==
  LET digits == CHOOSE d \in 1..9 : (d = 1 \/ 10^(d - 1) <= n) /\ n < 10^d
  IN  [i \in 1..digits |-> Digit((n \div 10^(digits - i)) % 10)]

(***************************************************************************)
(* crypto.createHash('sha1') ... digest('hex').  SHA-1 is modelled as an   *)
(* ideal hash: an injective map from the hashed text to hashLength         *)
(* lowercase hex characters (two for each hashed character, then "0"s; the *)
(* hashed texts of the model are at most hashLength \div 2 long).          *)
(***************************************************************************)
HashAlphabet ==
  <<"0", "1", "2", "3", "4", "5", "6", "7", "8", "9", "h", "{", "}", "x", " ", ":", "\"">>

HexDigit(n) ==
  <<"0", "1", "2", "3", "4", "5", "6", "7", "8", "9", "a", "b", "c", "d", "e", "f">>[n + 1]

\* the two hex characters that stand for each hashed character
HexPair ==
  [c \in {HashAlphabet[i] : i \in 1..Len(HashAlphabet)} |->
     LET n == CHOOSE i \in 1..Len(HashAlphabet) : HashAlphabet[i] = c
     IN  <<HexDigit(n \div 16), HexDigit(n % 16)>>]

Sha1Hex(text) ==
  [i \in 1..hashLength |->
     IF (i + 1) \div 2 > Len(text) THEN "0"
     ELSE HexPair[text[(i + 1) \div 2]][2 - (i % 2)]]

\* modifiedData = data.data + key + checkPacket.toString(), hashed
ServerHash(payload, checkPacket) == Sha1Hex(payload \o key \o NumToString(checkPacket))

(***************************************************************************)
(* Inbound path: framing, splitting, validation, decoding.                 *)
(***************************************************************************)
\* '{"command": "missingSocketDataString"}'
MissingData ==
  <<"{", "\"", "c", "o", "m", "m", "a", "n", "d", "\"", ":", " ", "\"",
    "m", "i", "s", "s", "i", "n", "g", "S", "o", "c", "k", "e", "t",
    "D", "a", "t", "a", "S", "t", "r", "i", "n", "g", "\"", "}">>

\* the framing half of getObjectFromRaw: cut at the first NUL, replace blank text
TrimmedData(raw) ==
  LET terminatingIndex == IndexOf(raw, <<TERMINATING_CHARACTER>>)
      cut == IF terminatingIndex > 0 THEN SubSeq(raw, 1, terminatingIndex - 1) ELSE raw
  IN  IF IsBlank(cut) THEN MissingData ELSE cut

\* data.slice(-hashLength) and data.slice(0, -hashLength)
splitCommandAndHash(text) ==
  [hash |-> SubSeq(text, Max(1, Len(text) - hashLength + 1), Len(text)),
   data |-> SubSeq(text, 1, Len(text) - hashLength)]

\* The search loop of validateClientCommandIntegrity: the candidates
\* packetCounter .. packetCounter + INC_PACKET_SEARCHBOUND - 1 in order, the
\* first whose hash equals the packet's.  Its call of destroy() on failure is
\* made by the data event.
\* the search with one candidate too few: i < INC_PACKET_SEARCHBOUND - 1
validateShortWindow(packet, counter) ==
  LET matching == {i \in 0..(INC_PACKET_SEARCHBOUND - 2) :
                     ServerHash(packet.data, counter + i) = packet.hash}
      first == CHOOSE i \in matching : \A j \in matching : i <= j
  IN  IF matching = {} THEN [validated |-> FALSE, packetCounter |-> counter]
      ELSE [validated |-> TRUE, packetCounter |-> counter + first]

\* the search with one candidate too many: i <= INC_PACKET_SEARCHBOUND
validateLongWindow(packet, counter) ==
  LET matching == {i \in 0..INC_PACKET_SEARCHBOUND :
                     ServerHash(packet.data, counter + i) = packet.hash}
      first == CHOOSE i \in matching : \A j \in matching : i <= j
  IN  IF matching = {} THEN [validated |-> FALSE, packetCounter |-> counter]
      ELSE [validated |-> TRUE, packetCounter |-> counter + first]

\* the search that stores the offset i of the match, not packetCounter + i
validateStoresOffset(packet, counter) ==
  LET matching == {i \in 0..(INC_PACKET_SEARCHBOUND - 1) :
                     ServerHash(packet.data, counter + i) = packet.hash}
      first == CHOOSE i \in matching : \A j \in matching : i <= j
  IN  IF matching = {} THEN [validated |-> FALSE, packetCounter |-> counter]
      ELSE [validated |-> TRUE, packetCounter |-> first]

\* the search that accepts a hash that is the beginning of the server's
validatePrefix(packet, counter) ==
  LET matching == {i \in 0..(INC_PACKET_SEARCHBOUND - 1) :
                     SubSeq(ServerHash(packet.data, counter + i), 1, Len(packet.hash))
                       = packet.hash}
      first == CHOOSE i \in matching : \A j \in matching : i <= j
  IN  IF matching = {} THEN [validated |-> FALSE, packetCounter |-> counter]
      ELSE [validated |-> TRUE, packetCounter |-> counter + first]

validateClientCommandIntegrity(packet, counter) ==
  LET matching == {i \in 0..(INC_PACKET_SEARCHBOUND - 1) :
                     ServerHash(packet.data, counter + i) = packet.hash}
      first == CHOOSE i \in matching : \A j \in matching : i <= j
  IN  IF matching = {} THEN [validated |-> FALSE, packetCounter |-> counter]
      ELSE [validated |-> TRUE, packetCounter |-> counter + first]

\* a parser that decodes every text
JSONparseLenient(text) == "emptyObject"

\* JSON.parse on the payload texts of the model: the decoded value, or
\* "SyntaxError" where JSON.parse throws
JSONparse(text) ==
  IF text = <<"{", "}">> THEN "emptyObject"
  ELSE IF text = <<"{", "}", " ">> THEN "emptyObject"
  ELSE "SyntaxError"

(***************************************************************************)
(* The buffers a data event may deliver.                                   *)
(***************************************************************************)
Payloads == {<<"{", "}">>, <<"x">>}

\* p + hex(sha1(p + key + s)): what a well-behaved peer sends as packet s
SignedFrame(p, s) == p \o ServerHash(p, s)

\* frames that no peer following the protocol sends
Malformed ==
  { <<>>,                                                   \* empty read
    <<" ">>,                                                \* whitespace only
    <<"x">>,                                                \* shorter than a digest
    SubSeq(ServerHash(<<>>, 0), 1, hashLength - 1),         \* a digest cut short
    <<"{", "}">> \o ServerHash(<<"x">>, 0),                 \* digest of another payload
    <<TERMINATING_CHARACTER>> \o SignedFrame(<<"{", "}">>, 0) }  \* NUL first

\* a signed frame followed by a NUL and more bytes in the same read
Terminated(s) == SignedFrame(<<"{", "}">>, s) \o <<TERMINATING_CHARACTER, "x">>

\* Spec: a peer that sends packet 0, any number of times, and an empty read
Buffers == {SignedFrame(<<"{", "}">>, 0), <<>>}

\* the counters these buffers can leave: 0, and 1 once packet 0 was accepted
Counters == {0, 1}

\* SpecWindow: a peer that signs with any sequence number up to MaxBeyond past
\* the search window of counter MaxStart
WindowSeqs == 0..(MaxStart + INC_PACKET_SEARCHBOUND + MaxBeyond)

\* the signed frames, tabulated (f @@ <<>> is f, evaluated once as a table)
FrameOf == [p \in Payloads |-> [s \in WindowSeqs |-> SignedFrame(p, s)] @@ <<>>] @@ <<>>

WindowBuffers == {FrameOf[p][s] : p \in Payloads, s \in WindowSeqs}

\* validation of a delivered buffer against a counter: framing, splitting, search
Validation(raw, counter) ==
  validateClientCommandIntegrity(splitCommandAndHash(TrimmedData(raw)), counter)

\* Validation tabulated over the buffers and counters of each specification
Validations ==
  [c \in Counters |-> [raw \in Buffers |-> Validation(raw, c)] @@ <<>>] @@ <<>>

WindowValidations ==
  [c \in 0..MaxStart |-> [raw \in WindowBuffers |-> Validation(raw, c)] @@ <<>>] @@ <<>>

\* SpecInbound: a peer that sends packets 0 .. MaxInSeq with either payload, in
\* any order and any number of times, a digest alone (an empty payload), a
\* packet followed by a NUL and more bytes, and malformed frames
InboundBuffers ==
  {FrameOf[p][s] : p \in Payloads, s \in 0..MaxInSeq}
    \cup {SignedFrame(<<>>, 0), Terminated(0)} \cup Malformed

InboundValidations ==
  [c \in 0..(MaxInSeq + 1) |-> [raw \in InboundBuffers |-> Validation(raw, c)] @@ <<>>] @@ <<>>

(***************************************************************************)
(* Outbound path: command objects and their serialization.                 *)
(*                                                                         *)
(* A command object is a record: command (a string, or Undefined when the  *)
(* property is absent), batch (TRUE when the object carries batch: true)   *)
(* and commands (its list of sub-commands).                                *)
(***************************************************************************)
Command(name) == [command |-> name, batch |-> FALSE, commands |-> <<>>]

Batch(commandList) == [command |-> Undefined, batch |-> TRUE, commands |-> commandList]

Connected == Command(<<"c", "o", "n", "n", "e", "c", "t", "e", "d">>)

\* "command":"<name>"
CommandProperty(name) ==
  <<"\"", "c", "o", "m", "m", "a", "n", "d", "\"", ":", "\"">> \o name \o <<"\"">>

\* "batch":true,"commands":[
BatchProperties ==
  <<"\"", "b", "a", "t", "c", "h", "\"", ":", "t", "r", "u", "e", ",",
    "\"", "c", "o", "m", "m", "a", "n", "d", "s", "\"", ":", "[">>

\* JSON.stringify of a command object; a batch's own properties come first and
\* a command name attached by send(name, data) last
RECURSIVE JSONstringify(_)
RECURSIVE JoinStringified(_)
JoinStringified(list) ==
  IF list = <<>> THEN <<>>
  ELSE JSONstringify(Head(list))
         \o (IF Len(list) > 1 THEN <<",">> ELSE <<>>) \o JoinStringified(Tail(list))

JSONstringify(obj) ==
  <<"{">>
    \o (IF obj.batch THEN BatchProperties \o JoinStringified(obj.commands) \o <<"]">>
                     ELSE <<>>)
    \o (IF obj.batch /\ obj.command # Undefined THEN <<",">> ELSE <<>>)
    \o (IF obj.command # Undefined THEN CommandProperty(obj.command) ELSE <<>>)
    \o <<"}">>

\* what getenv returns in place of a value when it throws its Error
Thrown == <<"<Error>">>

\* getenv(name, defaultValue) of getEnv.js, given value = process.env[name]
getenv(value, defaultValue) ==
  IF value = Undefined /\ defaultValue = Undefined THEN Thrown
  ELSE IF value # Undefined /\ value # <<>> THEN value ELSE defaultValue

\* a value coerced to a string by + and by replace
ToText(v) == IF v = Undefined THEN UndefinedText ELSE v

\* payload = header + JSON.stringify(command).replace(header, '')
Payload(header, command) ==
  ToText(header) \o ReplaceFirst(JSONstringify(command), ToText(header))

(***************************************************************************)
(* Inputs of the operations.                                               *)
(***************************************************************************)
\* values of process.env.PATCH_HEADER: not set, or the header "ab"
HeaderValues == {Undefined, <<"a", "b">>}

\* what the free identifier `client` in destroy() resolves to: no such global
\* (a ReferenceError), this connection, or some other connection
GlobalClients == {"undefined", "self", "other"}

\* command names: without the header, holding it once, and holding it so that
\* removing it leaves it again
Names == {<<"x">>, <<"a", "b">>}

Commands == {Command(n) : n \in Names}

EmptyObject == [command |-> Undefined, batch |-> FALSE, commands |-> <<>>]

\* the lists handed to batchSend: no command, one command, two commands
CommandLists ==
  {<<>>} \cup {<<c>> : c \in Commands} \cup {<<c, d>> : c \in Commands, d \in Commands}

\* the data objects handed to send(name, data)
DataObjects == {EmptyObject, Batch(<<Command(<<"x">>)>>)}

Handlers == {"h1"}

\* the handlers registered in SpecInbound
InboundHandlers == {"h1", "h2"}

(***************************************************************************)
(* State.                                                                  *)
(***************************************************************************)
VARIABLES
  phase,          \* "new" before the constructor ran, "live" after it returned,
                  \* "failed" after it threw (its data listener stays registered)
  PATCH_HEADER,   \* process.env.PATCH_HEADER
  globalClient,   \* the binding of the identifier `client` that destroy() reads
  data,           \* this.data, the key/value store
  tickMode,       \* this.tickMode
  tickModeQueue,  \* this.tickModeQueue
  packetCounter,  \* this.packetCounter
  dataHandlers,   \* this.dataHandlers
  socket,         \* this.socket: the first and the latest write it has seen, how
                  \* often it was destroyed
  otherSocket,    \* how often the socket of the other connection was destroyed
  last,           \* the operation that ran last: which, how it ended (its return
                  \* value or the error it threw), how many writes it made
  rx              \* what that operation did if it was a data event

vars ==
  <<phase, PATCH_HEADER, globalClient, data, tickMode, tickModeQueue, packetCounter,
    dataHandlers, socket, otherSocket, last, rx>>

\* this.get(name) is truthy
get(name) == name \in DOMAIN data /\ data[name] = TRUE

\* this.data after this.set(name, value)
set(name, value) == [k \in DOMAIN data \cup {name} |-> IF k = name THEN value ELSE data[k]]

Destroyed == get("destroyed")

\* the first and latest write of a socket never written to
NoWrite == [bytes |-> <<>>, command |-> EmptyObject]

NoEvent ==
  [raw |-> <<>>, before |-> -1, validated |-> FALSE, counter |-> -1, parsed |-> FALSE,
   invoked |-> <<>>, threw |-> FALSE]

Init ==
  /\ phase = "new"
  /\ PATCH_HEADER \in HeaderValues
  /\ globalClient \in GlobalClients
  /\ data = [k \in {} |-> TRUE]
  /\ tickMode = FALSE
  /\ tickModeQueue = <<>>
  /\ packetCounter = 0
  /\ dataHandlers = <<>>
  /\ socket = [first |-> NoWrite, latest |-> NoWrite, destroyed |-> 0]
  /\ otherSocket = 0
  /\ last = [op |-> "none", result |-> "undefined", wrote |-> 0]
  /\ rx = NoEvent

(***************************************************************************)
(* directSend.                                                             *)
(***************************************************************************)
\* what socket.write(payload) records: the bytes, and with them the command
\* object they were made from
Written(command) ==
  [bytes |-> Payload(getenv(PATCH_HEADER, Undefined), command), command |-> command]

\* directSend(command) returns false on a destroyed connection, else true
directSendResult == IF Destroyed THEN "false" ELSE "true"

\* this.socket after socket.write of command's payload
write(command) ==
  [socket EXCEPT !.first = IF @ = NoWrite THEN Written(command) ELSE @,
                 !.latest = Written(command)]

\* directSend without its check of the destroyed flag
directSendUnchecked(command) ==
  [socket |-> write(command), wrote |-> 1]

\* directSend(command): this.socket afterwards and the writes made
directSend(command) ==
  IF Destroyed THEN [socket |-> socket, wrote |-> 0]
  ELSE [socket |-> write(command), wrote |-> 1]

(***************************************************************************)
(* constructor.                                                            *)
(***************************************************************************)
\* the constructor without its greeting
ConstructNoGreeting ==
  /\ phase = "new"
  /\ data' = [k \in {} |-> TRUE]
  /\ tickMode' = FALSE
  /\ tickModeQueue' = <<>>
  /\ packetCounter' = 0
  /\ dataHandlers' = <<>>
  /\ phase' = "live"
  /\ socket' = socket
  /\ last' = [op |-> "constructor", result |-> "undefined", wrote |-> 0]
  /\ rx' = NoEvent
  /\ UNCHANGED <<PATCH_HEADER, globalClient, otherSocket>>

Construct ==
  /\ phase = "new"
  /\ data' = [k \in {} |-> TRUE]
  /\ tickMode' = FALSE
  /\ tickModeQueue' = <<>>
  /\ packetCounter' = 0
  /\ dataHandlers' = <<>>
  /\ IF getenv(PATCH_HEADER, Undefined) = Thrown
     THEN /\ phase' = "failed"
          /\ socket' = socket
          /\ last' = [op |-> "constructor", result |-> "Error", wrote |-> 0]
     ELSE /\ phase' = "live"
          /\ LET sent == directSend(Connected)
             IN  /\ socket' = sent.socket
                 /\ last' = [op |-> "constructor", result |-> "undefined",
                             wrote |-> sent.wrote]
  /\ rx' = NoEvent
  /\ UNCHANGED <<PATCH_HEADER, globalClient, otherSocket>>

(***************************************************************************)
(* send, batchSend, setTickMode, tick, destroy, onData.                    *)
(***************************************************************************)
\* send that writes at once whatever tickMode is
sendIgnoringTickMode(command) ==
  LET sent == directSend(command)
  IN  [tickModeQueue |-> tickModeQueue, socket |-> sent.socket, wrote |-> sent.wrote]

\* send that queues a batch object as it is
sendNoFlatten(command) ==
  IF tickMode
  THEN [tickModeQueue |-> Append(tickModeQueue, command), socket |-> socket, wrote |-> 0]
  ELSE LET sent == directSend(command)
       IN  [tickModeQueue |-> tickModeQueue, socket |-> sent.socket, wrote |-> sent.wrote]

\* send(command, data) once its two calling conventions have produced the
\* object `command`: the queue and the socket afterwards, the writes made.
\* send returns nothing.
send(command) ==
  IF tickMode
  THEN [tickModeQueue |-> IF command.batch THEN tickModeQueue \o command.commands
                                          ELSE Append(tickModeQueue, command),
        socket |-> socket, wrote |-> 0]
  ELSE LET sent == directSend(command)
       IN  [tickModeQueue |-> tickModeQueue, socket |-> sent.socket, wrote |-> sent.wrote]

\* the model queues at most MaxQueue commands
MaySend(command) ==
  tickMode
    => Len(tickModeQueue) + (IF command.batch THEN Len(command.commands) ELSE 1) <= MaxQueue

\* send(object): data = command
Send(command) ==
  /\ phase = "live"
  /\ MaySend(command)
  /\ LET sent == send(command)
     IN  /\ tickModeQueue' = sent.tickModeQueue
         /\ socket' = sent.socket
         /\ last' = [op |-> "send", result |-> "undefined", wrote |-> sent.wrote]
  /\ rx' = NoEvent
  /\ UNCHANGED <<phase, PATCH_HEADER, globalClient, data, tickMode, packetCounter,
                 dataHandlers, otherSocket>>

\* send(name, object): data.command = command
SendNamed(name, object) ==
  LET command == [object EXCEPT !.command = name]
  IN  /\ phase = "live"
      /\ MaySend(command)
      /\ LET sent == send(command)
         IN  /\ tickModeQueue' = sent.tickModeQueue
             /\ socket' = sent.socket
             /\ last' = [op |-> "send", result |-> "undefined", wrote |-> sent.wrote]
      /\ rx' = NoEvent
      /\ UNCHANGED <<phase, PATCH_HEADER, globalClient, data, tickMode, packetCounter,
                     dataHandlers, otherSocket>>

BatchSend(commandList) ==
  /\ phase = "live"
  /\ MaySend(Batch(commandList))
  /\ LET sent == send(Batch(commandList))
     IN  /\ tickModeQueue' = sent.tickModeQueue
         /\ socket' = sent.socket
         /\ last' = [op |-> "batchSend", result |-> "undefined", wrote |-> sent.wrote]
  /\ rx' = NoEvent
  /\ UNCHANGED <<phase, PATCH_HEADER, globalClient, data, tickMode, packetCounter,
                 dataHandlers, otherSocket>>

\* directSend called by the application
DirectSend(command) ==
  /\ phase = "live"
  /\ LET sent == directSend(command)
     IN  /\ socket' = sent.socket
         /\ last' = [op |-> "directSend", result |-> directSendResult,
                     wrote |-> sent.wrote]
  /\ rx' = NoEvent
  /\ UNCHANGED <<phase, PATCH_HEADER, globalClient, data, tickMode, tickModeQueue,
                 packetCounter, dataHandlers, otherSocket>>

SetTickMode(onOff) ==
  /\ phase = "live"
  /\ tickMode' = onOff
  /\ rx' = NoEvent
  /\ last' = [op |-> "setTickMode", result |-> "undefined", wrote |-> 0]
  /\ UNCHANGED <<phase, PATCH_HEADER, globalClient, data, tickModeQueue, packetCounter,
                 dataHandlers, socket, otherSocket>>

\* tick that does not empty the queue after flushing it
tickKeepsQueue ==
  IF ~tickMode
  THEN [tickModeQueue |-> tickModeQueue, socket |-> socket, wrote |-> 0, result |-> "Error"]
  ELSE IF tickModeQueue # <<>>
       THEN LET sent == directSend(Batch(tickModeQueue))
            IN  [tickModeQueue |-> tickModeQueue, socket |-> sent.socket,
                 wrote |-> sent.wrote, result |-> "undefined"]
       ELSE [tickModeQueue |-> tickModeQueue, socket |-> socket, wrote |-> 0,
             result |-> "undefined"]

\* tick without its check of tickMode
tickUnchecked ==
  IF tickModeQueue # <<>>
  THEN LET sent == directSend(Batch(tickModeQueue))
       IN  [tickModeQueue |-> <<>>, socket |-> sent.socket, wrote |-> sent.wrote,
            result |-> "undefined"]
  ELSE [tickModeQueue |-> tickModeQueue, socket |-> socket, wrote |-> 0,
        result |-> "undefined"]

\* tick(): the queue and the socket afterwards, the writes made and how the
\* call ends ("Error" when it throws)
tick ==
  IF ~tickMode
  THEN [tickModeQueue |-> tickModeQueue, socket |-> socket, wrote |-> 0, result |-> "Error"]
  ELSE IF tickModeQueue # <<>>
       THEN LET sent == directSend(Batch(tickModeQueue))
            IN  [tickModeQueue |-> <<>>, socket |-> sent.socket, wrote |-> sent.wrote,
                 result |-> "undefined"]
       ELSE [tickModeQueue |-> tickModeQueue, socket |-> socket, wrote |-> 0,
             result |-> "undefined"]

Tick ==
  /\ phase = "live"
  /\ LET ticked == tick
     IN  /\ tickModeQueue' = ticked.tickModeQueue
         /\ socket' = ticked.socket
         /\ last' = [op |-> "tick", result |-> ticked.result, wrote |-> ticked.wrote]
  /\ rx' = NoEvent
  /\ UNCHANGED <<phase, PATCH_HEADER, globalClient, data, tickMode, packetCounter,
                 dataHandlers, otherSocket>>

\* destroy(): the store, this socket, the other connection's socket and how the
\* call ends.  The flag is set first; `client.socket.destroy()` then reads the
\* identifier `client`, which is not this: it throws a ReferenceError when no
\* such global exists and otherwise destroys the socket of whatever it names.
destroy ==
  IF Destroyed
  THEN [data |-> data, socket |-> socket, otherSocket |-> otherSocket,
        result |-> "undefined"]
  ELSE [data |-> set("destroyed", TRUE),
        socket |-> IF globalClient = "self" THEN [socket EXCEPT !.destroyed = @ + 1]
                                          ELSE socket,
        otherSocket |-> IF globalClient = "other" THEN otherSocket + 1 ELSE otherSocket,
        result |-> IF globalClient = "undefined" THEN "ReferenceError" ELSE "undefined"]

Destroy ==
  /\ phase = "live"
  /\ data' = destroy.data
  /\ socket' = destroy.socket
  /\ otherSocket' = destroy.otherSocket
  /\ rx' = NoEvent
  /\ last' = [op |-> "destroy", result |-> destroy.result, wrote |-> 0]
  /\ UNCHANGED <<phase, PATCH_HEADER, globalClient, tickMode, tickModeQueue,
                 packetCounter, dataHandlers>>

OnData(handler) ==
  /\ phase = "live"
  /\ Len(dataHandlers) < MaxHandlers
  /\ dataHandlers' = Append(dataHandlers, handler)
  /\ rx' = NoEvent
  /\ last' = [op |-> "onData", result |-> "undefined", wrote |-> 0]
  /\ UNCHANGED <<phase, PATCH_HEADER, globalClient, data, tickMode, tickModeQueue,
                 packetCounter, socket, otherSocket>>

(***************************************************************************)
(* The socket's 'data' listener, with getObjectFromRaw and the destroy()   *)
(* of a failed validation.  v is the validation of raw against             *)
(* packetCounter.  The listener runs from the constructor's socket.on on,  *)
(* until this socket is destroyed.  Handlers return without calling back   *)
(* into the wrapper.                                                       *)
(***************************************************************************)
\* the handlers called from last registered to first
forEachHandlerReversed(object) ==
  [i \in 1..Len(dataHandlers) |-> <<dataHandlers[Len(dataHandlers) + 1 - i], object>>]

\* this.dataHandlers.forEach(handler => handler(dataAsObject)): the calls made,
\* each the handler and its argument
forEachHandler(object) ==
  [i \in 1..Len(dataHandlers) |-> <<dataHandlers[i], object>>]

\* a listener that does not count the packet
packetNotCounted(counter) == counter

\* ++this.packetCounter
incrementPacketCounter(counter) == counter + 1

DataEvent(raw, v) ==
  LET payload == splitCommandAndHash(TrimmedData(raw)).data
      dataAsObject == IF v.validated THEN JSONparse(payload) ELSE "false"
      dispatched == v.validated /\ dataAsObject # "SyntaxError"
  IN  /\ phase # "new"
      /\ socket.destroyed = 0
      /\ data' = IF v.validated THEN data ELSE destroy.data
      /\ socket' = IF v.validated THEN socket ELSE destroy.socket
      /\ otherSocket' = IF v.validated THEN otherSocket ELSE destroy.otherSocket
      /\ packetCounter' = IF dispatched THEN incrementPacketCounter(v.packetCounter)
                                        ELSE v.packetCounter
      /\ rx' = [raw |-> raw, before |-> packetCounter, validated |-> v.validated,
                counter |-> v.packetCounter, parsed |-> dispatched,
                invoked |-> IF dispatched THEN forEachHandler(dataAsObject) ELSE <<>>,
                threw |-> ~v.validated /\ destroy.result = "ReferenceError"]
      /\ last' = [op |-> "data",
                  result |-> IF ~v.validated /\ destroy.result = "ReferenceError"
                             THEN "ReferenceError" ELSE "undefined",
                  wrote |-> 0]
      /\ UNCHANGED <<phase, PATCH_HEADER, globalClient, tickMode, tickModeQueue,
                     dataHandlers>>

(***************************************************************************)
(* Specifications.                                                         *)
(***************************************************************************)
Next ==
  \/ Construct
  \/ \E c \in Commands : Send(c)
  \/ \E n \in Names, o \in DataObjects : SendNamed(n, o)
  \/ \E l \in CommandLists : BatchSend(l)
  \/ \E c \in Commands : DirectSend(c)
  \/ \E b \in BOOLEAN : SetTickMode(b)
  \/ Tick
  \/ Destroy
  \/ \E h \in Handlers : OnData(h)
  \/ \E raw \in Buffers : DataEvent(raw, Validations[packetCounter][raw])

Spec == Init /\ [][Next]_vars

\* The wrapper with a peer that signs frames with any sequence number up to
\* MaxBeyond past the search window, delivered while the counter is MaxStart
\* at most.
DataEventWindow ==
  /\ packetCounter <= MaxStart
  /\ \E raw \in WindowBuffers : DataEvent(raw, WindowValidations[packetCounter][raw])

NextWindow ==
  \/ Construct
  \/ Destroy
  \/ DataEventWindow

SpecWindow == Init /\ [][NextWindow]_vars

\* The inbound path alone: handlers are registered, frames of every kind arrive.
OnDataInbound ==
  /\ Len(dataHandlers) < MaxRegistered
  /\ \E h \in InboundHandlers :
       /\ phase = "live"
       /\ dataHandlers' = Append(dataHandlers, h)
       /\ rx' = NoEvent
       /\ last' = [op |-> "onData", result |-> "undefined", wrote |-> 0]
       /\ UNCHANGED <<phase, PATCH_HEADER, globalClient, data, tickMode, tickModeQueue,
                      packetCounter, socket, otherSocket>>

DataEventInbound ==
  \E raw \in InboundBuffers : DataEvent(raw, InboundValidations[packetCounter][raw])

NextInbound ==
  \/ Construct
  \/ Destroy
  \/ OnDataInbound
  \/ DataEventInbound

SpecInbound == Init /\ [][NextInbound]_vars

(***************************************************************************)
(* Properties.                                                             *)
(***************************************************************************)

\* C1: a frame p + hex(hash(p + key + s)) with counter <= s < counter + 100
\* validates, and validation leaves the counter at s.  (rx.before is the
\* counter when the frame arrived, rx.counter the counter when
\* validateClientCommandIntegrity returned.)
C1_InWindowValidates ==
  \A p \in Payloads, s \in WindowSeqs :
    (rx.raw = FrameOf[p][s] /\ rx.before <= s /\ s < rx.before + INC_PACKET_SEARCHBOUND)
      => (rx.validated /\ rx.counter = s)

\* a frame signed with the last sequence number of the window of a counter
\* that has advanced was accepted
C1_Witness ==
  /\ rx.before > 0
  /\ \E p \in Payloads :
       rx.raw = FrameOf[p][rx.before + INC_PACKET_SEARCHBOUND - 1]
  /\ rx.validated
  /\ rx.counter = rx.before + INC_PACKET_SEARCHBOUND - 1

\* C2: a frame signed with s >= counter + 100 fails validation and the
\* connection is destroyed (store.destroyed is true).
C2_BeyondWindowDestroys ==
  \A p \in Payloads, s \in WindowSeqs :
    (rx.raw = FrameOf[p][s] /\ rx.before >= 0 /\ s >= rx.before + INC_PACKET_SEARCHBOUND)
      => (~rx.validated /\ rx.counter = rx.before /\ Destroyed)

\* the first sequence number past the window was rejected
C2_Witness ==
  /\ rx.before >= 0
  /\ \E p \in Payloads : rx.raw = FrameOf[p][rx.before + INC_PACKET_SEARCHBOUND]
  /\ ~rx.validated
  /\ Destroyed

\* C3: destroy() is idempotent: however often it is called, and whether the
\* first call came from a failed validation or from the application, this
\* connection's own transport is closed exactly once and store.destroyed is
\* true.
C3_DestroyClosesOwnSocketOnce ==
  (phase = "live" /\ Destroyed) => socket.destroyed = 1

\* C4: once store.destroyed is true no later operation writes to the
\* transport, and the transport is closed at most once.
C4_InertAfterDestroy ==
  [][/\ Destroyed => /\ last'.wrote = 0
                      /\ socket'.first = socket.first
                      /\ socket'.latest = socket.latest
     /\ socket'.destroyed <= 1]_vars

\* directSend was called on a destroyed connection whose transport is closed
C4_Witness ==
  /\ Destroyed
  /\ socket.destroyed = 1
  /\ last = [op |-> "directSend", result |-> "false", wrote |-> 0]
  /\ tickMode

\* C5: on a destroyed connection send() reports failure and does nothing:
\* no write, no change of the queue, in either tick mode.
C5_SendAfterDestroyFails ==
  [][\A c \in Commands :
       (Destroyed /\ Send(c))
         => (last'.result = "false" /\ socket' = socket
             /\ tickModeQueue' = tickModeQueue)]_vars

\* C6: in tick mode on a live connection each send() appends its command to
\* the queue without writing, and tick() then makes exactly one write, the
\* batch of the queued commands in call order, and empties the queue; tick()
\* with an empty queue writes nothing.
C6_TickFlushesOneBatch ==
  [][/\ \A c \in Commands :
          (tickMode /\ last'.op = "send" /\ Send(c))
            => (tickModeQueue' = Append(tickModeQueue, c) /\ socket' = socket)
     /\ (tickMode /\ ~Destroyed /\ tickModeQueue # <<>> /\ last'.op = "tick" /\ Tick)
          => /\ last'.wrote = 1
             /\ socket'.first = socket.first
             /\ socket'.latest.command
                  = [command |-> Undefined, batch |-> TRUE, commands |-> tickModeQueue]
             /\ tickModeQueue' = <<>>
     /\ (tickMode /\ tickModeQueue = <<>> /\ last'.op = "tick" /\ Tick)
          => (socket' = socket /\ last'.wrote = 0)]_vars

\* tick() has flushed two different commands, in the order they were sent
C6_Witness ==
  /\ phase = "live"
  /\ tickMode
  /\ last = [op |-> "tick", result |-> "undefined", wrote |-> 1]
  /\ tickModeQueue = <<>>
  /\ socket.latest.command = Batch(<<Command(<<"x">>), Command(<<"a", "b">>)>>)

\* C7: while tickMode is true, a step of send, batchSend, setTickMode or a
\* data event writes nothing: every write is made by tick().  (directSend,
\* called by the application itself, is the write primitive and not one of
\* these operations.)
C7_TickModeWritesOnlyInTick ==
  [][(tickMode /\ (last'.wrote > 0 \/ socket'.latest # socket.latest)
        /\ last'.op # "directSend")
       => last'.op = "tick"]_vars

\* in tick mode, commands were sent and only tick() wrote them
C7_Witness ==
  /\ tickMode
  /\ last.op = "tick"
  /\ last.wrote = 1
  /\ socket.latest.command.batch
  /\ Len(socket.latest.command.commands) = 2

\* C8: tick() while tickMode is false throws and has no other effect: no
\* write, the queue unchanged.
C8_TickOutsideTickModeThrows ==
  [][(~tickMode /\ last'.op = "tick" /\ Tick)
       => (last'.result = "Error" /\ socket' = socket
           /\ tickModeQueue' = tickModeQueue)]_vars

\* tick() threw while commands were waiting in the queue
C8_Witness ==
  /\ ~tickMode
  /\ last = [op |-> "tick", result |-> "Error", wrote |-> 0]
  /\ tickModeQueue # <<>>
  /\ ~Destroyed

\* C9: every frame written is the header followed by a body without the
\* header: the header occurs in it exactly once, at its start.
C9_HeaderOccursOnce ==
  \A w \in {socket.first, socket.latest} :
    w # NoWrite
      => /\ OccursAt(w.bytes, ToText(PATCH_HEADER), 1)
         /\ Occurrences(w.bytes, ToText(PATCH_HEADER)) = 1

\* {"command":"connected"}
ConnectedText ==
  <<"{", "\"", "c", "o", "m", "m", "a", "n", "d", "\"", ":", "\"",
    "c", "o", "n", "n", "e", "c", "t", "e", "d", "\"", "}">>

\* C10: the constructor writes exactly one frame, the greeting
\* {command: "connected"}, and it is the first write on the transport.
C10_GreetingFirst ==
  phase = "live"
    => /\ socket.first = [bytes |-> PATCH_HEADER \o ConnectedText, command |-> Connected]
       /\ last.op = "constructor" => (last.wrote = 1 /\ socket.latest = socket.first)

\* a later write follows the greeting
C10_Witness ==
  /\ phase = "live"
  /\ socket.first.bytes = PATCH_HEADER \o ConnectedText
  /\ socket.latest # socket.first
  /\ last.op = "send"
  /\ last.wrote = 1

\* C11: a frame that was accepted is not accepted again when the same bytes
\* are delivered in the next data event, whether or not its payload parsed.
C11_ReplayRejected ==
  [][(rx.validated /\ last'.op = "data" /\ rx'.raw = rx.raw) => ~rx'.validated]_vars

\* C12: a data event whose frame fails validation invokes no handler, leaves
\* the counter as it was, leaves the connection destroyed, and ends without
\* an error reaching the caller of the data event.
C12_FailedValidationSilent ==
  (last.op = "data" /\ ~rx.validated)
    => /\ rx.invoked = <<>>
       /\ packetCounter = rx.before
       /\ Destroyed
       /\ ~rx.threw

\* the frames with a valid digest whose payload is not JSON
Unparseable == {FrameOf[<<"x">>][s] : s \in 0..MaxInSeq} \cup {SignedFrame(<<>>, 0)}

\* C13: a data event whose frame has a valid digest and a payload that is
\* not JSON invokes no handler, neither destroys the connection nor closes
\* or writes to a socket, and ends without an error.
C13_UnparseableDroppedSilently ==
  [][(last'.op = "data" /\ rx'.raw \in Unparseable /\ rx'.validated)
       => /\ ~rx'.parsed
          /\ rx'.invoked = <<>>
          /\ data' = data
          /\ socket' = socket
          /\ otherSocket' = otherSocket
          /\ ~rx'.threw]_vars

\* a frame with a valid digest and the payload x arrived on a live connection
\* with two handlers registered, and was dropped
C13_Witness ==
  /\ last.op = "data"
  /\ rx.raw = FrameOf[<<"x">>][1]
  /\ rx.validated
  /\ ~rx.parsed
  /\ Len(dataHandlers) = 2
  /\ ~Destroyed
  /\ socket.destroyed = 0

\* the frames with a valid digest whose payload is JSON
Parseable == {FrameOf[<<"{", "}">>][s] : s \in 0..MaxInSeq} \cup {Terminated(0)}

C15_CounterNeverDecreases ==
  packetCounter = 0 /\ [][packetCounter' >= packetCounter]_vars

\* the counter has advanced as far as the peer's packets take it, and frames
\* were rejected and dropped since without lowering it
C15_Witness ==
  /\ packetCounter = MaxInSeq + 1
  /\ last.op = "data"
  /\ rx.before = MaxInSeq + 1
  /\ ~rx.validated
  /\ rx.raw = FrameOf[<<"{", "}">>][0]

\* C16: the outbound queue is non-empty only while tickMode is true.
C16_QueueEmptyOutsideTickMode ==
  ~tickMode => tickModeQueue = <<>>

\* C17: in tick mode, sending a batch object (by send or by batchSend) adds
\* its sub-commands to the end of the queue one by one in list order, and
\* sending any other object adds that object; the next tick() of a live
\* connection writes the queue as one batch of commands none of which is
\* itself a batch.
C17_BatchesAreFlattened ==
  [][/\ \A l \in CommandLists :
          (tickMode /\ last'.op = "batchSend" /\ BatchSend(l))
            => (tickModeQueue' = tickModeQueue \o l /\ socket' = socket)
     /\ \A n \in Names, o \in DataObjects :
          (tickMode /\ last'.op = "send" /\ SendNamed(n, o))
            => /\ tickModeQueue' = IF o.batch THEN tickModeQueue \o o.commands
                                              ELSE Append(tickModeQueue, Command(n))
               /\ socket' = socket
     /\ \A c \in Commands :
          (tickMode /\ last'.op = "send" /\ Send(c))
            => (tickModeQueue' = Append(tickModeQueue, c) /\ socket' = socket)
     /\ (tickMode /\ ~Destroyed /\ tickModeQueue # <<>> /\ last'.op = "tick" /\ Tick)
          => /\ socket'.latest.command = Batch(tickModeQueue)
             /\ \A i \in 1..Len(tickModeQueue) : ~tickModeQueue[i].batch
             /\ last'.wrote = 1]_vars

\* in tick mode batchSend has left two commands at the end of the queue, and
\* nothing was written
C17_Witness ==
  /\ tickMode
  /\ ~Destroyed
  /\ last = [op |-> "batchSend", result |-> "undefined", wrote |-> 0]
  /\ tickModeQueue = <<Command(<<"a", "b">>), Command(<<"x">>)>>

\* C18: a data event whose framed text (the placeholder, for an empty or
\* blank one) is shorter than 40 characters fails validation, destroys the
\* connection and invokes no handler.
C18_ShortFrameRejected ==
  /\ \A blank \in {<<>>, <<" ">>} :
       TrimmedData(blank) = MissingData /\ Len(MissingData) < hashLength
  /\ (last.op = "data" /\ Len(TrimmedData(rx.raw)) < hashLength)
       => /\ ~rx.validated
          /\ Destroyed
          /\ rx.invoked = <<>>
          /\ packetCounter = rx.before

\* the first 39 characters of a digest the server computes arrived on a live
\* connection with a handler registered, and were rejected
C18_Witness ==
  /\ last.op = "data"
  /\ rx.raw = SubSeq(ServerHash(<<>>, 0), 1, hashLength - 1)
  /\ rx.before = 0
  /\ ~rx.validated
  /\ dataHandlers # <<>>
  /\ Destroyed

\* C19: once store.destroyed is true, a data event invokes no handler and
\* leaves the counter as it is.
C19_InboundInertAfterDestroy ==
  [][(Destroyed /\ last'.op = "data")
       => (rx'.invoked = <<>> /\ packetCounter' = packetCounter)]_vars

====
